---- MODULE Spec2Model ----
(***************************************************************************)
(* Chat client of the course tutor: the ChatInput and ChatMessage           *)
(* components, the useChat / useChatThreads hooks and the ChatPage that     *)
(* wires them, and the PostgreSQL schema of the content tables.             *)
(*                                                                          *)
(* Six specifications share the variables; each keeps the variables of    *)
(* the other parts at their initial value:                                  *)
(*   SpecInput    ChatInput (text, props, calls of onSend)                  *)
(*   SpecMessage  ChatMessage (one rendered message)                        *)
(*   SpecCitations  CitationList (its citations, expanded or collapsed)     *)
(*   SpecDb       Course / ContentFile / DocumentChunk rows                 *)
(*   SpecChat     ChatPage + useChat + useChatThreads against the backend:  *)
(*                threads created and selected, messages sent               *)
(*   SpecThreads  ChatPage + useChatThreads + the router: threads created,  *)
(*                selected and deleted                                      *)
(***************************************************************************)
EXTENDS Integers, Sequences, FiniteSets, TLC

VARIABLES
    \* ---- ChatInput
    text,           \* useState('') of ChatInput
    isLoading,      \* prop isLoading
    maxLength,      \* prop maxLength
    onSendCalls,    \* the arguments onSend was called with, in order
    lastEvent,      \* the last event ChatInput handled
    inputView,      \* what ChatInput renders from text and props
    \* ---- ChatMessage
    message,        \* prop message
    showCitations,  \* useState(false) of ChatMessage
    rendered,       \* what ChatMessage renders from message and showCitations
    \* ---- CitationList
    citations,      \* prop citations
    expanded,       \* useState(false) of each CitationItem
    clicks,         \* the number of clicks each CitationItem has received
    citationView,   \* what the CitationItems render
    \* ---- database
    Course,         \* ids of the rows of "Course"
    ContentFile,    \* rows of "ContentFile"
    DocumentChunk,  \* rows of "DocumentChunk"
    \* ---- chat page, hooks and backend
    activeThreadId,      \* useState of ChatPage
    currentThreadId,     \* router.query.threadId
    navs,                \* router.push calls whose route change has not completed
    deletes,             \* deleteThread requests in flight
    lastSelection,       \* the last handler that set the selection, and to what
    thrown,              \* the sends whose sendMessage promise was rejected
    srvDeleted,          \* threads the backend has deleted
    optimisticMessages,  \* useState of useChat
    messagesData,        \* SWR cache of /api/chat/threads/{id}/messages, per thread
    threadsData,         \* SWR cache of /api/chat/threads
    creates,             \* createThread requests in flight
    sends,               \* send requests in flight
    requestLog,          \* every request the client has issued
    srvThreads,          \* threads the backend holds
    srvMessages,         \* persisted messages of each thread, in thread order
    nextSub,             \* number of the next submission
    failedSends          \* sends that failed after the student message was written

inputVars == <<text, isLoading, maxLength, onSendCalls, lastEvent, inputView>>
messageVars == <<message, showCitations, rendered>>
citationVars == <<citations, expanded, clicks, citationView>>
dbVars == <<Course, ContentFile, DocumentChunk>>
chatVars == <<activeThreadId, currentThreadId, navs, deletes, lastSelection, thrown,
              optimisticMessages, messagesData, threadsData, creates, sends, requestLog,
              srvThreads, srvDeleted, srvMessages, nextSub, failedSends>>
vars == <<inputVars, messageVars, citationVars, dbVars, chatVars>>

None == "none"

\* an optional value: absent, or present with a value
Undefined == <<>>
Some(x) == <<x>>

(***************************************************************************)
(* Bounds                                                                   *)
(***************************************************************************)
MaxTextLen == 3
MaxCalls == 1
MaxCitations == 2
MaxClicks == 2
MaxChunks == 2
MaxChunkIndex == 2
MaxSends == 2
MaxNavs == 1

(***************************************************************************)
(* ChatInput                                                                *)
(***************************************************************************)
Chars == {"a", " "}

RECURSIVE SeqsUpTo(_, _)
SeqsUpTo(S, n) ==
    IF n = 0 THEN {<<>>}
    ELSE LET shorter == SeqsUpTo(S, n - 1)
         IN  shorter \cup {Append(s, x) : s \in {t \in shorter : Len(t) = n - 1}, x \in S}

Texts == SeqsUpTo(Chars, MaxTextLen)

DefaultMaxLength == 4000
NearLimit == 100
\* values of the maxLength prop: below, around and above the near-limit band
MaxLengths == {2, NearLimit + 1, NearLimit + MaxTextLen + 1, DefaultMaxLength}

Event(type, key, shiftKey) == [type |-> type, key |-> key, shiftKey |-> shiftKey]

IsWhitespace(c) == c = " "

RECURSIVE TrimStart(_)
TrimStart(s) ==
    IF s # <<>> /\ IsWhitespace(Head(s)) THEN TrimStart(Tail(s)) ELSE s

RECURSIVE TrimEnd(_)
TrimEnd(s) ==
    IF s # <<>> /\ IsWhitespace(s[Len(s)]) THEN TrimEnd(SubSeq(s, 1, Len(s) - 1)) ELSE s

\* String.prototype.trim
Trim(s) == TrimEnd(TrimStart(s))

\* a string is truthy iff it is not empty
Truthy(s) == s # <<>>

remainingChars(t, max) == max - Len(t)

\* mutant: the near-limit band without its upper end
isNearLimitBelowBand(t, max) == remainingChars(t, max) < NearLimit

isNearLimit(t, max) == remainingChars(t, max) <= NearLimit
isOverLimit(t, max) == remainingChars(t, max) < 0

TextareaDisabled(loading) == loading

SubmitDisabled(t, loading, max) ==
    loading \/ ~Truthy(Trim(t)) \/ isOverLimit(t, max)

CounterColour(t, max) ==
    IF isOverLimit(t, max) THEN "text-red-500"
    ELSE IF isNearLimit(t, max) THEN "text-amber-500"
    ELSE "text-gray-400"

DecimalDigits == <<"0", "1", "2", "3", "4", "5", "6", "7", "8", "9">>

\* the decimal digits of a natural number, most significant first
RECURSIVE DigitsOf(_)
DigitsOf(n) ==
    IF n < Len(DecimalDigits) THEN <<DecimalDigits[n + 1]>>
    ELSE Append(DigitsOf(n \div Len(DecimalDigits)), DecimalDigits[(n % Len(DecimalDigits)) + 1])

\* digits in groups of three, separated by commas
RECURSIVE Grouped(_)
Grouped(ds) ==
    IF Len(ds) <= 3 THEN ds
    ELSE Grouped(SubSeq(ds, 1, Len(ds) - 3)) \o <<",">> \o SubSeq(ds, Len(ds) - 2, Len(ds))

\* Number.prototype.toLocaleString() of an integer, as a sequence of characters
ToLocaleString(n) ==
    IF n < 0 THEN <<"-">> \o Grouped(DigitsOf(0 - n)) ELSE Grouped(DigitsOf(n))

\* {remainingChars.toLocaleString()} / {maxLength.toLocaleString()}
CounterText(t, max) ==
    ToLocaleString(remainingChars(t, max)) \o <<" ", "/", " ">> \o ToLocaleString(max)

RenderInput(t, loading, max) ==
    [ textareaDisabled |-> TextareaDisabled(loading),
      submitDisabled   |-> SubmitDisabled(t, loading, max),
      remaining        |-> remainingChars(t, max),
      max              |-> max,
      counterText      |-> CounterText(t, max),
      colour           |-> CounterColour(t, max) ]

\* mutants of the guard of handleSubmit
SubmitAcceptsNoTrimCheck(t, loading) == ~loading
SubmitAcceptsNoLoadingCheck(t, loading) == Truthy(Trim(t))

\* the condition of handleSubmit: trimmedText && !isLoading
SubmitAccepts(t, loading) == Truthy(Trim(t)) /\ ~loading

\* mutant: handleSubmit without setText('')
handleSubmitKeepsText ==
    IF SubmitAccepts(text, isLoading)
    THEN /\ onSendCalls' = Append(onSendCalls, Trim(text))
         /\ text' = text
    ELSE UNCHANGED <<text, onSendCalls>>

handleSubmit ==
    IF SubmitAccepts(text, isLoading)
    THEN /\ onSendCalls' = Append(onSendCalls, Trim(text))
         /\ text' = <<>>
    ELSE UNCHANGED <<text, onSendCalls>>

\* mutant: Enter submits whatever the Shift key
SubmitsOnKeyIgnoringShift(key, shiftKey) == key = "Enter"

\* e.key === 'Enter' && !e.shiftKey
SubmitsOnKey(key, shiftKey) == key = "Enter" /\ ~shiftKey

InputFrame ==
    /\ inputView' = RenderInput(text', isLoading', maxLength')
    /\ UNCHANGED <<messageVars, citationVars, dbVars, chatVars>>

\* onChange of the textarea: setText(e.target.value)
Change ==
    /\ \E v \in Texts : text' = v
    /\ lastEvent' = Event("change", "", FALSE)
    /\ UNCHANGED <<isLoading, maxLength, onSendCalls>>
    /\ InputFrame

\* a click on the send button; a disabled button delivers no click
ClickSend ==
    /\ ~SubmitDisabled(text, isLoading, maxLength)
    /\ Len(onSendCalls) < MaxCalls
    /\ handleSubmit
    /\ lastEvent' = Event("click", "", FALSE)
    /\ UNCHANGED <<isLoading, maxLength>>
    /\ InputFrame

\* onKeyDown of the textarea
handleKeyDown ==
    /\ Len(onSendCalls) < MaxCalls
    /\ \E key \in {"Enter", "a"}, shiftKey \in BOOLEAN :
          /\ IF SubmitsOnKey(key, shiftKey)
             THEN handleSubmit
             ELSE UNCHANGED <<text, onSendCalls>>
          /\ lastEvent' = Event("keydown", key, shiftKey)
    /\ UNCHANGED <<isLoading, maxLength>>
    /\ InputFrame

\* the parent renders ChatInput with another isLoading
SetLoading ==
    /\ isLoading' = ~isLoading
    /\ lastEvent' = Event("props", "", FALSE)
    /\ UNCHANGED <<text, maxLength, onSendCalls>>
    /\ InputFrame

(***************************************************************************)
(* Messages and citations (types.ts)                                        *)
(***************************************************************************)
MessageSender == {"USER", "ASSISTANT"}
AnswerMode == {"COURSE_GROUNDED", "OUTSIDE_MATERIAL"}

ChunkIds == {"chunk-1", "chunk-2"}
\* page_number?: number and section_heading?: string
PageNumbers == {Undefined, Some(0), Some(12)}
SectionHeadings == {Undefined, Some(""), Some("Introduction")}

Citation ==
    [chunk_id : ChunkIds, page_number : PageNumbers, section_heading : SectionHeadings]

CitationLists == SeqsUpTo(Citation, MaxCitations)

ChatMessageData(ids, threads) ==
    [ id : ids, thread_id : threads, sender : MessageSender,
      answer_mode : AnswerMode \cup {None}, citations : CitationLists ]

(***************************************************************************)
(* ChatMessage                                                              *)
(***************************************************************************)
isUser(m) == m.sender = "USER"
isOutsideMaterial(m) == m.answer_mode = "OUTSIDE_MATERIAL"

\* mutants of the two conditions of ChatMessage
ShowsOutsideBadgeAnySender(m) == isOutsideMaterial(m)
ShowsCitationToggleAnyLength(m) == ~isUser(m)

\* !isUser && isOutsideMaterial
ShowsOutsideBadge(m) == ~isUser(m) /\ isOutsideMaterial(m)

\* !isUser && message.citations && message.citations.length > 0
ShowsCitationToggle(m) == ~isUser(m) /\ Len(m.citations) > 0

\* the text of the toggle button
ToggleLabel(m, show) ==
    [ verb   |-> IF show THEN "Hide" ELSE "Show",
      count  |-> Len(m.citations),
      plural |-> Len(m.citations) > 1 ]

\* mutant: the index badge counted from 0
RenderCitationListFromZero(cs) ==
    [ i \in 1..Len(cs) |-> [ index |-> i - 1, citation |-> cs[i] ] ]

\* CitationList: one CitationItem per citation, index = position + 1
RenderCitationList(cs) ==
    [ i \in 1..Len(cs) |-> [ index |-> i, citation |-> cs[i] ] ]

\* mutant: the citation list rendered whatever showCitations
RenderMessageListAlways(m, show) ==
    [ badge  |-> IF ShowsOutsideBadge(m) THEN Some("Outside Course Material") ELSE Undefined,
      toggle |-> IF ShowsCitationToggle(m) THEN Some(ToggleLabel(m, show)) ELSE Undefined,
      list   |-> IF ShowsCitationToggle(m)
                 THEN Some(RenderCitationList(m.citations)) ELSE Undefined ]

RenderMessage(m, show) ==
    [ badge  |-> IF ShowsOutsideBadge(m) THEN Some("Outside Course Material") ELSE Undefined,
      toggle |-> IF ShowsCitationToggle(m) THEN Some(ToggleLabel(m, show)) ELSE Undefined,
      list   |-> IF ShowsCitationToggle(m) /\ show
                 THEN Some(RenderCitationList(m.citations)) ELSE Undefined ]

MessageFrame ==
    /\ rendered' = RenderMessage(message', showCitations')
    /\ UNCHANGED <<inputVars, citationVars, dbVars, chatVars>>

\* onClick of the toggle button: setShowCitations(!showCitations)
ToggleCitations ==
    /\ ShowsCitationToggle(message)
    /\ showCitations' = ~showCitations
    /\ UNCHANGED message
    /\ MessageFrame

(***************************************************************************)
(* CitationList and CitationItem                                            *)
(***************************************************************************)
\* source_title and snippet are strings every citation has; they are those of its chunk
SourceTitle(c) == [field |-> "source_title", chunk_id |-> c.chunk_id]
Snippet(c) == [field |-> "snippet", chunk_id |-> c.chunk_id]

\* {citation.page_number && <span>Page {citation.page_number}</span>}: undefined
\* renders nothing, the number 0 is falsy and is rendered as the text 0
PageLabel(c) ==
    IF c.page_number = Undefined THEN Undefined
    ELSE IF c.page_number[1] = 0 THEN Some([label |-> "", n |-> 0])
    ELSE Some([label |-> "Page ", n |-> c.page_number[1]])

\* {citation.section_heading && <p>Section: {citation.section_heading}</p>}:
\* undefined and the empty string render nothing
SectionLabel(c) ==
    IF c.section_heading = Undefined \/ c.section_heading[1] = "" THEN Undefined
    ELSE Some([label |-> "Section: ", heading |-> c.section_heading[1]])

\* mutant: a click always opens the item
ToggleExpandedOpens(e) == TRUE

\* setExpanded(!expanded)
ToggleExpanded(e) == ~e

\* CitationItem: the button row, and the content under it when expanded
RenderCitationItem(props, isExpanded) ==
    [ index   |-> props.index,
      title   |-> SourceTitle(props.citation),
      page    |-> PageLabel(props.citation),
      content |-> IF isExpanded
                  THEN Some([ section |-> SectionLabel(props.citation),
                              snippet |-> Snippet(props.citation) ])
                  ELSE Undefined ]

RenderCitations(cs, exp) ==
    [ i \in 1..Len(cs) |-> RenderCitationItem(RenderCitationList(cs)[i], exp[i]) ]

CitationFrame ==
    /\ citationView' = RenderCitations(citations', expanded')
    /\ UNCHANGED <<inputVars, messageVars, dbVars, chatVars>>

\* onClick of the button of one CitationItem
ClickCitation ==
    /\ \E i \in DOMAIN citations :
          /\ clicks[i] < MaxClicks
          /\ expanded' = [expanded EXCEPT ![i] = ToggleExpanded(@)]
          /\ clicks' = [clicks EXCEPT ![i] = @ + 1]
    /\ UNCHANGED citations
    /\ CitationFrame

(***************************************************************************)
(* Database schema: "Course", "ContentFile", "DocumentChunk"                *)
(* A statement is an action only when every constraint of the schema        *)
(* accepts it; ON DELETE / ON UPDATE CASCADE run inside the statement.      *)
(***************************************************************************)
CourseIds == {"course-1", "course-2"}
FileIds == {"file-1", "file-2"}
ChunkRowIds == 1..MaxChunks
ChunkIndexes == 0..MaxChunkIndex

\* CONSTRAINT "ContentFile_pkey" PRIMARY KEY ("id")
ContentFile_pkey(rows) == \A r1, r2 \in rows : r1.id = r2.id => r1 = r2

\* CONSTRAINT "DocumentChunk_pkey" PRIMARY KEY ("id")
DocumentChunk_pkey(rows) == \A r1, r2 \in rows : r1.id = r2.id => r1 = r2

\* "ContentFile_courseId_fkey": ContentFile.courseId REFERENCES "Course"("id")
ContentFile_courseId_fkey(files, courses) == \A f \in files : f.courseId \in courses

\* "DocumentChunk_contentFileId_fkey": contentFileId REFERENCES "ContentFile"("id")
DocumentChunk_contentFileId_fkey(chunks, files) ==
    \A k \in chunks : \E f \in files : f.id = k.contentFileId

\* everything the schema checks of the three tables
SchemaAccepts(courses, files, chunks) ==
    /\ ContentFile_pkey(files)
    /\ DocumentChunk_pkey(chunks)
    /\ ContentFile_courseId_fkey(files, courses)
    /\ DocumentChunk_contentFileId_fkey(chunks, files)

DbFrame == UNCHANGED <<inputVars, messageVars, citationVars, chatVars>>

Commit(courses, files, chunks) ==
    /\ SchemaAccepts(courses, files, chunks)
    /\ Course' = courses
    /\ ContentFile' = files
    /\ DocumentChunk' = chunks
    /\ DbFrame

InsertCourse ==
    \E c \in CourseIds \ Course :
        Commit(Course \cup {c}, ContentFile, DocumentChunk)

\* ON DELETE CASCADE: the course's content files go, and with them their chunks
DeleteCourse ==
    \E c \in Course :
        LET gone == {f \in ContentFile : f.courseId = c}
        IN  Commit(Course \ {c}, ContentFile \ gone,
                   {k \in DocumentChunk : \A f \in gone : f.id # k.contentFileId})

\* UPDATE "Course" SET id; ON UPDATE CASCADE rewrites ContentFile.courseId, the
\* only referencing column of the three tables
UpdateCourseId ==
    \E c \in Course, n \in CourseIds \ Course :
        Commit((Course \ {c}) \cup {n},
               {(IF f.courseId = c THEN [f EXCEPT !.courseId = n] ELSE f) : f \in ContentFile},
               DocumentChunk)

InsertContentFile ==
    \E id \in FileIds, c \in CourseIds :
        /\ \A f \in ContentFile : f.id # id
        /\ Commit(Course, ContentFile \cup {[id |-> id, courseId |-> c]}, DocumentChunk)

UpdateContentFile ==
    \E f \in ContentFile : \E c \in CourseIds \ {f.courseId} :
        Commit(Course, (ContentFile \ {f}) \cup {[f EXCEPT !.courseId = c]}, DocumentChunk)

\* ON DELETE CASCADE: the file's chunks go with it
DeleteContentFile ==
    \E f \in ContentFile :
        Commit(Course, ContentFile \ {f},
               {k \in DocumentChunk : k.contentFileId # f.id})

DocumentChunkRows ==
    [ id : ChunkRowIds, courseId : CourseIds, contentFileId : FileIds,
      chunkIndex : ChunkIndexes ]

InsertDocumentChunk ==
    \E row \in DocumentChunkRows :
        /\ \A k \in DocumentChunk : k.id # row.id
        /\ Commit(Course, ContentFile, DocumentChunk \cup {row})

UpdateDocumentChunk ==
    \E k \in DocumentChunk, row \in DocumentChunkRows :
        /\ row.id = k.id
        /\ row # k
        /\ Commit(Course, ContentFile, (DocumentChunk \ {k}) \cup {row})

DeleteDocumentChunk ==
    \E k \in DocumentChunk :
        Commit(Course, ContentFile, DocumentChunk \ {k})

(***************************************************************************)
(* Backend: threads and the Answer Composer                                 *)
(* The backend is reached only through /api/chat/*; its behaviour is taken  *)
(* from the specification (sections 3, 4.4 and 5).                          *)
(***************************************************************************)
ThreadIds == {"thread-1", "thread-2"}

GroundedCitations ==
    { <<[chunk_id |-> "chunk-1", page_number |-> Some(12),
         section_heading |-> Some("Introduction")]>>,
      <<[chunk_id |-> "chunk-1", page_number |-> Some(12),
         section_heading |-> Some("Introduction")],
        [chunk_id |-> "chunk-2", page_number |-> Undefined,
         section_heading |-> Undefined]>> }

\* what the Composer may persist as the assistant turn: a grounded answer with the
\* validated, non-empty citations, or an outside-material answer without citations
ComposerAnswers ==
    {[answer_mode |-> "COURSE_GROUNDED", citations |-> c] : c \in GroundedCitations}
        \cup {[answer_mode |-> "OUTSIDE_MATERIAL", citations |-> <<>>]}

StudentMessage(thread, sub) ==
    [ id |-> [kind |-> "user", sub |-> sub], thread_id |-> thread, sender |-> "USER",
      answer_mode |-> None, citations |-> <<>> ]

AssistantMessage(thread, sub, answer) ==
    [ id |-> [kind |-> "assistant", sub |-> sub], thread_id |-> thread,
      sender |-> "ASSISTANT", answer_mode |-> answer.answer_mode,
      citations |-> answer.citations ]

\* the sequence guard: a message takes its place by the sequence number of its
\* submission, the student message before the assistant message of the same turn
RECURSIVE InsertBySequence(_, _)
InsertBySequence(list, m) ==
    IF list = <<>> THEN <<m>>
    ELSE IF Head(list).id.sub > m.id.sub THEN <<m>> \o list
    ELSE <<Head(list)>> \o InsertBySequence(Tail(list), m)

\* the student message is written when the request reaches the Composer
WriteStudentMessage(msgs, thread, sub, written) ==
    IF written
    THEN [msgs EXCEPT ![thread] = InsertBySequence(@, StudentMessage(thread, sub))]
    ELSE msgs

(***************************************************************************)
(* Requests of the client                                                   *)
(***************************************************************************)
\* useChatThreads(courseId): GET /api/chat/threads + (courseId ? ?course_id= : '')
ListThreadsRequest(courseId) ==
    [op |-> "listThreads", thread |-> None, course_id |-> courseId]

\* createThread(url, {arg}): POST /api/chat/threads with body arg
CreateThreadRequest(arg) ==
    [op |-> "createThread", thread |-> None, course_id |-> arg.course_id]

\* POST /api/chat/threads/{id}/messages with body {text}
SendMessageRequest(thread) ==
    [op |-> "sendMessage", thread |-> thread, course_id |-> Undefined]

\* GET /api/chat/threads/{id}/messages
GetMessagesRequest(thread) ==
    [op |-> "getMessages", thread |-> thread, course_id |-> Undefined]

\* DELETE /api/chat/threads/{id}
DeleteThreadRequest(thread) ==
    [op |-> "deleteThread", thread |-> thread, course_id |-> Undefined]

\* ChatPage calls useChatThreads() without a course
PageCourseId == Undefined
\* the arguments ChatPage gives createThread: {} and {title}
NewChatArg == [course_id |-> Undefined, title |-> Undefined]
FirstMessageArg == [course_id |-> Undefined, title |-> Some("text")]

(***************************************************************************)
(* useChat, useCreateThread, useChatThreads and ChatPage                    *)
(***************************************************************************)
\* messagesData?.messages || []
FetchedMessages(data, threadId) ==
    IF threadId = None \/ data[threadId] = Undefined THEN <<>> ELSE data[threadId][1]

\* mutant: the failed optimistic message is left in place
RemoveByIdKeepsAll(list, id) == list

\* mutant: the optimistic messages ahead of the fetched ones
allMessagesOptimisticFirst(messages, optimistic) == optimistic \o messages

\* const allMessages = [...messages, ...optimisticMessages]
allMessages(messages, optimistic) == messages \o optimistic

\* the messages ChatArea shows
Displayed == allMessages(FetchedMessages(messagesData, activeThreadId), optimisticMessages)

\* isMutating of the send mutation: a triggerSend has not settled
isSending == \E r \in sends : r.via = "hook"

\* isMutating of the createThread mutation: a trigger has not settled
isCreating == creates # {}

\* threadLoading || messagesLoading: the key is set and has no data yet
chatLoading == activeThreadId # None /\ messagesData[activeThreadId] = Undefined

\* isLoading of ChatArea and of its ChatInput
PageLoading == chatLoading \/ isSending \/ isCreating

\* ChatArea shows EmptyState, whose suggestions call onSendMessage directly
EmptyStateShown == Displayed = <<>>

\* the optimistic message of sendMessageHandler, id temp-<now>
OptimisticUserMsg(thread, sub) ==
    [ id |-> [kind |-> "temp", sub |-> sub], thread_id |-> thread, sender |-> "USER",
      answer_mode |-> None, citations |-> <<>> ]

\* prev.filter((m) => m.id !== optimisticUserMsg.id)
RECURSIVE RemoveById(_, _)
RemoveById(list, id) ==
    IF list = <<>> THEN <<>>
    ELSE IF Head(list).id = id THEN RemoveById(Tail(list), id)
    ELSE <<Head(list)>> \o RemoveById(Tail(list), id)

\* mutate() of the messages key: the cache of the current key is fetched again
MutateMessages(data, threadId, srv) ==
    IF threadId = None THEN data ELSE [data EXCEPT ![threadId] = Some(srv[threadId])]

FreshThreadIds == ThreadIds \ (srvThreads \cup srvDeleted \cup {c.thread : c \in creates})

PendingFirstMessages == Cardinality({c \in creates : c.purpose = "send"})

ChatFrame == UNCHANGED <<inputVars, messageVars, citationVars, dbVars>>

\* mutateThreads(): the thread list is fetched again
MutateThreads(srv) ==
    /\ threadsData' = srv
    /\ requestLog' = requestLog \cup {ListThreadsRequest(PageCourseId)}

\* mutant: the push goes to /chat
ThreadRouteWithoutQuery(id) == None

\* the threadId that router.query has after router.push(`/chat?threadId=${id}`)
ThreadRoute(id) == id
\* router.push('/chat'): no threadId in the query
ChatRoute == None

\* the effect 'Sync URL with active thread', run after a render: the selection the
\* page has once the effect has settled
SyncEffect(current, active) ==
    IF current # None /\ current # active THEN current ELSE active

Selection(by, id) == [by |-> by, id |-> id]

\* setActiveThreadId(id) followed by router.push(route). The route change completes
\* asynchronously; the render of the new selection takes place before it, with the
\* old query, or together with it
SetActiveAndPush(id, route) ==
    \/ /\ Len(navs) < MaxNavs
       /\ navs' = Append(navs, route)
       /\ activeThreadId' = SyncEffect(currentThreadId, id)
       /\ UNCHANGED currentThreadId
    \/ /\ navs = <<>>
       /\ currentThreadId' = route
       /\ activeThreadId' = SyncEffect(route, id)
       /\ UNCHANGED navs

\* a route change completes: router.query changes, the page renders, the effect runs
routeChangeComplete ==
    /\ navs # <<>>
    /\ currentThreadId' = Head(navs)
    /\ navs' = Tail(navs)
    /\ activeThreadId' = SyncEffect(Head(navs), activeThreadId)
    /\ UNCHANGED <<deletes, lastSelection, thrown, optimisticMessages, messagesData,
                   threadsData, creates, sends, requestLog, srvThreads, srvDeleted,
                   srvMessages, nextSub, failedSends>>
    /\ ChatFrame

\* useSWR of useChatThreads fetches on mount, on focus and every 30 s
fetchThreads ==
    /\ MutateThreads(srvThreads)
    /\ UNCHANGED <<activeThreadId, currentThreadId, navs, deletes, lastSelection, thrown,
                   optimisticMessages, messagesData, creates, sends,
                   srvThreads, srvDeleted, srvMessages, nextSub, failedSends>>
    /\ ChatFrame

\* useSWR of useChat fetches the messages of the current key (key change, reconnect)
revalidateMessages ==
    /\ activeThreadId # None
    /\ messagesData' = IF activeThreadId \in srvThreads
                       THEN MutateMessages(messagesData, activeThreadId, srvMessages)
                       ELSE messagesData
    /\ requestLog' = requestLog \cup {GetMessagesRequest(activeThreadId)}
    /\ UNCHANGED <<activeThreadId, currentThreadId, navs, deletes, lastSelection, thrown,
                   optimisticMessages, threadsData, creates, sends,
                   srvThreads, srvDeleted, srvMessages, nextSub, failedSends>>
    /\ ChatFrame

\* handleSelectThread(id), from a row of the sidebar
handleSelectThread ==
    /\ \E id \in threadsData :
          /\ SetActiveAndPush(id, ThreadRoute(id))
          /\ lastSelection' = Selection("select", id)
    /\ UNCHANGED <<deletes, thrown, optimisticMessages, messagesData, threadsData,
                   creates, sends, requestLog, srvThreads, srvDeleted, srvMessages,
                   nextSub, failedSends>>
    /\ ChatFrame

\* handleDeleteThread(id) up to its await, the confirm answered with OK: deleteThread
\* takes the thread out of the cached list and sends the DELETE
handleDeleteThread ==
    /\ \E id \in threadsData :
          /\ id \notin {d.thread : d \in deletes}
          /\ deletes' = deletes \cup {[thread |-> id, activeAtCall |-> activeThreadId,
                                       previousData |-> threadsData]}
          /\ threadsData' = threadsData \ {id}
          /\ requestLog' = requestLog \cup {DeleteThreadRequest(id)}
    /\ UNCHANGED <<activeThreadId, currentThreadId, navs, lastSelection, thrown,
                   optimisticMessages, messagesData, creates, sends, srvThreads,
                   srvDeleted, srvMessages, nextSub, failedSends>>
    /\ ChatFrame

\* the DELETE was answered (fetch resolves whatever the status): the list is fetched
\* again, and the selection is cleared if the thread was the active one when
\* handleDeleteThread was called
deleteResolved ==
    /\ \E d \in deletes : \E deleted \in BOOLEAN :
          /\ deletes' = deletes \ {d}
          /\ srvThreads' = IF deleted THEN srvThreads \ {d.thread} ELSE srvThreads
          /\ srvDeleted' = IF deleted /\ d.thread \in srvThreads
                           THEN srvDeleted \cup {d.thread} ELSE srvDeleted
          /\ MutateThreads(srvThreads')
          /\ IF d.thread = d.activeAtCall
             THEN /\ SetActiveAndPush(None, ChatRoute)
                  /\ lastSelection' =
                        Selection(IF d.thread \in srvDeleted' THEN "delete" ELSE "clear", None)
             ELSE UNCHANGED <<activeThreadId, currentThreadId, navs, lastSelection>>
    /\ UNCHANGED <<thrown, optimisticMessages, messagesData, creates, sends,
                   srvMessages, nextSub, failedSends>>
    /\ ChatFrame

\* the DELETE failed on the network: deleteThread puts the previous list back and
\* rethrows, handleDeleteThread shows a toast
deleteRejected ==
    /\ \E d \in deletes :
          /\ deletes' = deletes \ {d}
          /\ threadsData' = d.previousData
    /\ UNCHANGED <<activeThreadId, currentThreadId, navs, lastSelection, thrown,
                   optimisticMessages, messagesData, creates, sends, requestLog,
                   srvThreads, srvDeleted, srvMessages, nextSub, failedSends>>
    /\ ChatFrame

\* trigger of useCreateThread: POST /api/chat/threads with body arg
StartCreate(purpose, arg) ==
    /\ \E t \in FreshThreadIds :
          creates' = creates \cup {[thread |-> t, purpose |-> purpose]}
    /\ requestLog' = requestLog \cup {CreateThreadRequest(arg)}
    /\ UNCHANGED <<activeThreadId, currentThreadId, navs, deletes, lastSelection, thrown,
                   optimisticMessages, messagesData, threadsData, sends,
                   srvThreads, srvDeleted, srvMessages, nextSub, failedSends>>

\* handleNewChat up to its await: createThread({})
handleNewChat ==
    /\ StartCreate("new", NewChatArg)
    /\ ChatFrame

\* sendMessageHandler up to its await: the optimistic message, then triggerSend
sendMessageHandler(threadId) ==
    /\ threadId # None
    /\ optimisticMessages' = Append(optimisticMessages, OptimisticUserMsg(threadId, nextSub))
    /\ \E written \in (IF threadId \in srvThreads THEN BOOLEAN ELSE {FALSE}) :
          /\ sends' = sends \cup {[sub |-> nextSub, thread |-> threadId, via |-> "hook",
                                   written |-> written]}
          /\ srvMessages' = WriteStudentMessage(srvMessages, threadId, nextSub, written)
    /\ nextSub' = nextSub + 1
    /\ requestLog' = requestLog \cup {SendMessageRequest(threadId)}
    /\ UNCHANGED <<activeThreadId, currentThreadId, navs, deletes, lastSelection, thrown,
                   messagesData, threadsData, creates, srvThreads, srvDeleted,
                   failedSends>>

\* handleSendMessage up to its first await; called by ChatInput when its submit is
\* accepted and by the suggestions of EmptyState
handleSendMessage ==
    /\ SubmitAccepts(<<"a">>, PageLoading) \/ EmptyStateShown
    /\ nextSub + PendingFirstMessages <= MaxSends
    /\ IF activeThreadId = None
       THEN StartCreate("send", FirstMessageArg)
       ELSE sendMessageHandler(activeThreadId)
    /\ ChatFrame

\* createThread resolved: the rest of handleNewChat, or of the first branch of
\* handleSendMessage, which posts the message itself with fetch
createThreadResolved ==
    /\ \E c \in creates :
          /\ creates' = creates \ {c}
          /\ srvThreads' = srvThreads \cup {c.thread}
          /\ SetActiveAndPush(c.thread, ThreadRoute(c.thread))
          /\ lastSelection' = Selection(c.purpose, c.thread)
          /\ threadsData' = srvThreads'
          /\ IF c.purpose = "send"
             THEN /\ \E written \in BOOLEAN :
                        /\ sends' = sends \cup {[sub |-> nextSub, thread |-> c.thread,
                                                 via |-> "direct", written |-> written]}
                        /\ srvMessages' =
                              WriteStudentMessage(srvMessages, c.thread, nextSub, written)
                  /\ nextSub' = nextSub + 1
                  /\ requestLog' = requestLog \cup {ListThreadsRequest(PageCourseId),
                                                    SendMessageRequest(c.thread)}
             ELSE /\ requestLog' = requestLog \cup {ListThreadsRequest(PageCourseId)}
                  /\ UNCHANGED <<sends, srvMessages, nextSub>>
    /\ UNCHANGED <<deletes, thrown, optimisticMessages, messagesData, srvDeleted,
                   failedSends>>
    /\ ChatFrame

\* createThread rejected: the catch of either handler shows a toast
createThreadRejected ==
    /\ \E c \in creates : creates' = creates \ {c}
    /\ UNCHANGED <<activeThreadId, currentThreadId, navs, deletes, lastSelection, thrown,
                   optimisticMessages, messagesData, threadsData, sends,
                   requestLog, srvThreads, srvDeleted, srvMessages, nextSub, failedSends>>
    /\ ChatFrame

\* the request resolved: the Composer has persisted the assistant message.
\* sendMessageHandler clears the optimistic messages and revalidates; then
\* handleSendMessage refreshes the thread list
sendResolved ==
    /\ \E r \in sends :
          /\ r.written
          /\ r.thread \in srvThreads
          /\ sends' = sends \ {r}
          /\ \E answer \in ComposerAnswers :
                srvMessages' = [srvMessages EXCEPT ![r.thread] =
                                   InsertBySequence(@, AssistantMessage(r.thread, r.sub, answer))]
          /\ IF r.via = "hook"
             THEN /\ optimisticMessages' = <<>>
                  /\ messagesData' =
                        IF activeThreadId \in srvThreads
                        THEN MutateMessages(messagesData, activeThreadId, srvMessages')
                        ELSE messagesData
                  /\ requestLog' = requestLog \cup {ListThreadsRequest(PageCourseId)}
                        \cup (IF activeThreadId = None THEN {}
                              ELSE {GetMessagesRequest(activeThreadId)})
             ELSE /\ requestLog' = requestLog \cup {ListThreadsRequest(PageCourseId)}
                  /\ UNCHANGED <<optimisticMessages, messagesData>>
    /\ threadsData' = srvThreads
    /\ UNCHANGED <<activeThreadId, currentThreadId, navs, deletes, lastSelection, thrown,
                   creates, srvThreads, srvDeleted, nextSub, failedSends>>
    /\ ChatFrame

\* the request failed, before or after the student message was written.
\* sendMessageHandler removes the optimistic message of this send and rethrows;
\* handleSendMessage shows a toast
sendRejected ==
    /\ \E r \in sends :
          /\ sends' = sends \ {r}
          /\ optimisticMessages' =
                IF r.via = "hook"
                THEN RemoveById(optimisticMessages, OptimisticUserMsg(r.thread, r.sub).id)
                ELSE optimisticMessages
          /\ thrown' = IF r.via = "hook" THEN thrown \cup {r.sub} ELSE thrown
          /\ failedSends' = IF r.written THEN failedSends \cup {r} ELSE failedSends
    /\ UNCHANGED <<activeThreadId, currentThreadId, navs, deletes, lastSelection,
                   messagesData, threadsData, creates, requestLog,
                   srvThreads, srvDeleted, srvMessages, nextSub>>
    /\ ChatFrame

(***************************************************************************)
(* Initial states and specifications                                        *)
(***************************************************************************)
InputIdle ==
    /\ text = <<>>
    /\ isLoading = FALSE
    /\ maxLength = DefaultMaxLength
    /\ onSendCalls = <<>>
    /\ lastEvent = Event("mount", "", FALSE)
    /\ inputView = RenderInput(text, isLoading, maxLength)

MessageIdle ==
    /\ message = [ id |-> "msg-1", thread_id |-> "thread-1", sender |-> "USER",
                   answer_mode |-> None, citations |-> <<>> ]
    /\ showCitations = FALSE
    /\ rendered = RenderMessage(message, showCitations)

\* a CitationList mounted with its citations, every item collapsed
CitationsMounted(cs) ==
    /\ citations = cs
    /\ expanded = [i \in 1..Len(cs) |-> FALSE]
    /\ clicks = [i \in 1..Len(cs) |-> 0]
    /\ citationView = RenderCitations(citations, expanded)

CitationIdle == CitationsMounted(<<>>)

DbEmpty ==
    /\ Course = {}
    /\ ContentFile = {}
    /\ DocumentChunk = {}

ChatIdle ==
    /\ activeThreadId = None
    /\ currentThreadId = None
    /\ navs = <<>>
    /\ deletes = {}
    /\ lastSelection = Selection("none", None)
    /\ thrown = {}
    /\ srvDeleted = {}
    /\ optimisticMessages = <<>>
    /\ messagesData = [t \in ThreadIds |-> Undefined]
    /\ threadsData = {}
    /\ creates = {}
    /\ sends = {}
    /\ requestLog = {}
    /\ srvThreads = {}
    /\ srvMessages = [t \in ThreadIds |-> <<>>]
    /\ nextSub = 1
    /\ failedSends = {}

\* ChatInput mounted with its props
InitInput ==
    /\ text = <<>>
    /\ isLoading \in BOOLEAN
    /\ maxLength \in MaxLengths
    /\ onSendCalls = <<>>
    /\ lastEvent = Event("mount", "", FALSE)
    /\ inputView = RenderInput(text, isLoading, maxLength)
    /\ MessageIdle /\ CitationIdle /\ DbEmpty /\ ChatIdle

NextInput == Change \/ ClickSend \/ handleKeyDown \/ SetLoading

SpecInput == InitInput /\ [][NextInput]_vars

\* ChatMessage mounted with a message
InitMessage ==
    /\ message \in ChatMessageData({"msg-1"}, {"thread-1"})
    /\ showCitations = FALSE
    /\ rendered = RenderMessage(message, showCitations)
    /\ InputIdle /\ CitationIdle /\ DbEmpty /\ ChatIdle

NextMessage == ToggleCitations

SpecMessage == InitMessage /\ [][NextMessage]_vars

\* CitationList mounted with a list of citations
InitCitations ==
    /\ \E cs \in CitationLists : CitationsMounted(cs)
    /\ InputIdle /\ MessageIdle /\ DbEmpty /\ ChatIdle

NextCitations == ClickCitation

SpecCitations == InitCitations /\ [][NextCitations]_vars

InitDb == DbEmpty /\ InputIdle /\ MessageIdle /\ CitationIdle /\ ChatIdle

NextDb ==
    \/ InsertCourse \/ DeleteCourse \/ UpdateCourseId
    \/ InsertContentFile \/ UpdateContentFile \/ DeleteContentFile
    \/ InsertDocumentChunk \/ UpdateDocumentChunk \/ DeleteDocumentChunk

SpecDb == InitDb /\ [][NextDb]_vars

\* ChatPage opened at /chat
InitChat == ChatIdle /\ InputIdle /\ MessageIdle /\ CitationIdle /\ DbEmpty

NextChat ==
    \/ fetchThreads \/ revalidateMessages \/ handleSelectThread \/ routeChangeComplete
    \/ handleNewChat \/ handleSendMessage
    \/ createThreadResolved \/ createThreadRejected
    \/ sendResolved \/ sendRejected

SpecChat == InitChat /\ [][NextChat]_vars

\* ChatPage opened at /chat: the thread list, the selection and the router
InitThreads == ChatIdle /\ InputIdle /\ MessageIdle /\ CitationIdle /\ DbEmpty

NextThreads ==
    \/ fetchThreads \/ handleSelectThread \/ routeChangeComplete
    \/ handleNewChat \/ createThreadResolved \/ createThreadRejected
    \/ handleDeleteThread \/ deleteResolved \/ deleteRejected

SpecThreads == InitThreads /\ [][NextThreads]_vars

(***************************************************************************)
(* Claims                                                                   *)
(***************************************************************************)
OutsideLabel == Some("Outside Course Material")

\* C1: the 'Outside Course Material' label is displayed iff the sender is not USER
\* and the answer mode is OUTSIDE_MATERIAL; never for a COURSE_GROUNDED message, a
\* message without answer mode, or a USER message.
C1_OutsideLabelIffOutsideAssistant ==
    /\ rendered.badge \in {Undefined, OutsideLabel}
    /\ rendered.badge = OutsideLabel <=>
          (message.sender # "USER" /\ message.answer_mode = "OUTSIDE_MATERIAL")
    /\ message.answer_mode = "COURSE_GROUNDED" => rendered.badge = Undefined
    /\ message.answer_mode = None => rendered.badge = Undefined
    /\ message.sender = "USER" => rendered.badge = Undefined

C1_Witness ==
    /\ message.sender = "ASSISTANT"
    /\ message.answer_mode = "OUTSIDE_MATERIAL"
    /\ showCitations
    /\ rendered.badge = OutsideLabel

\* every message the client holds: the cached messages of each thread, the
\* optimistic messages, and the messages shown
HeldMessages ==
    UNION {{FetchedMessages(messagesData, t)[i] :
                i \in DOMAIN FetchedMessages(messagesData, t)} : t \in ThreadIds}
        \cup {optimisticMessages[i] : i \in DOMAIN optimisticMessages}
        \cup {Displayed[i] : i \in DOMAIN Displayed}

InSubmissionOrder(list) ==
    \A i, j \in DOMAIN list :
        ( /\ i < j
          /\ list[i].sender = "USER" /\ list[j].sender = "USER"
          /\ list[i].thread_id = list[j].thread_id )
            => list[i].id.sub <= list[j].id.sub

C4_StudentMessageShownAfterFailure ==
    \A r \in failedSends :
        (r.via = "hook" /\ r.thread = activeThreadId) =>
            \E i \in DOMAIN Displayed :
                /\ Displayed[i].sender = "USER"
                /\ Displayed[i].id.sub = r.sub

CourseScopedOps == {"listThreads", "createThread", "sendMessage"}

\* C5: every course-scoped request of the client (list threads, create a thread,
\* send a message) carries an explicit course identifier.
C5_EveryRequestCarriesCourse ==
    \A q \in requestLog : q.op \in CourseScopedOps => q.course_id # Undefined

\* C6: every DocumentChunk row references exactly one existing ContentFile row and
\* has the courseId of that row.
C6_ChunkInheritsCourse ==
    \A k \in DocumentChunk :
        /\ Cardinality({f \in ContentFile : f.id = k.contentFileId}) = 1
        /\ \A f \in ContentFile : f.id = k.contentFileId => k.courseId = f.courseId

ChunkIndexesOf(fileId) == {k.chunkIndex : k \in {c \in DocumentChunk : c.contentFileId = fileId}}

\* C7: the chunkIndex values of the chunks of one content file are contiguous and
\* no two chunks of one content file share a chunkIndex.
C7_ChunkIndexContiguousUnique ==
    \A f \in FileIds :
        /\ \A k1, k2 \in DocumentChunk :
              (k1.contentFileId = f /\ k2.contentFileId = f /\ k1 # k2)
                  => k1.chunkIndex # k2.chunkIndex
        /\ \A lo, hi \in ChunkIndexesOf(f) :
              \A x \in lo..hi : x \in ChunkIndexesOf(f)

\* C8: ChatInput never calls onSend with empty or whitespace-only text: while the
\* trimmed text is empty no event calls onSend, and no call carries such a text.
C8_NoBlankSend ==
    [][ /\ ~Truthy(Trim(text)) => onSendCalls' = onSendCalls
        /\ onSendCalls' # onSendCalls =>
              Truthy(Trim(onSendCalls'[Len(onSendCalls')])) ]_vars

\* Enter without Shift on a whitespace-only text, not loading: nothing was sent
C8_Witness ==
    /\ lastEvent = Event("keydown", "Enter", FALSE)
    /\ text # <<>>
    /\ ~Truthy(Trim(text))
    /\ ~isLoading
    /\ onSendCalls = <<>>

\* C9: no call of onSend carries a text longer than maxLength.
C9_NoOverLimitSend ==
    \A i \in DOMAIN onSendCalls : Len(onSendCalls[i]) <= maxLength

\* C10: while isLoading is true the textarea and the send button are disabled and
\* no event calls onSend.
C10_LoadingDisablesInput ==
    [][ isLoading =>
          /\ inputView.textareaDisabled
          /\ inputView.submitDisabled
          /\ onSendCalls' = onSendCalls ]_vars

\* Enter without Shift on a sendable text while loading: nothing was sent
C10_Witness ==
    /\ lastEvent = Event("keydown", "Enter", FALSE)
    /\ isLoading
    /\ Truthy(Trim(text))
    /\ ~isOverLimit(text, maxLength)
    /\ inputView.textareaDisabled
    /\ inputView.submitDisabled
    /\ onSendCalls = <<>>

\* the event of a step was a submit: a click on the send button or Enter without Shift
SubmitEvents == {Event("click", "", FALSE), Event("keydown", "Enter", FALSE)}

C12_SubmitSendsOnceAndClears ==
    [][ lastEvent' \in SubmitEvents =>
          IF Truthy(Trim(text)) /\ ~isLoading
          THEN /\ onSendCalls' = Append(onSendCalls, Trim(text))
               /\ text' = <<>>
          ELSE /\ onSendCalls' = onSendCalls
               /\ text' = text ]_vars

\* a click was accepted: one call of onSend, the text reset
C12_Witness ==
    /\ lastEvent = Event("click", "", FALSE)
    /\ Len(onSendCalls) = 1
    /\ Truthy(onSendCalls[1])
    /\ text = <<>>

\* reading the counter back: the number a sequence of characters denotes
DigitValue(c) == CHOOSE d \in 0..9 : DecimalDigits[d + 1] = c

RECURSIVE ParseDigits(_, _)
ParseDigits(s, acc) ==
    IF s = <<>> THEN acc
    ELSE IF Head(s) = "," THEN ParseDigits(Tail(s), acc)
    ELSE ParseDigits(Tail(s), acc * 10 + DigitValue(Head(s)))

NumberShown(s) ==
    IF s # <<>> /\ Head(s) = "-" THEN 0 - ParseDigits(Tail(s), 0) ELSE ParseDigits(s, 0)

SlashAt(s) == CHOOSE p \in DOMAIN s : s[p] = "/"
ShownRemaining == NumberShown(SubSeq(inputView.counterText, 1, SlashAt(inputView.counterText) - 2))
ShownMax ==
    NumberShown(SubSeq(inputView.counterText, SlashAt(inputView.counterText) + 2,
                       Len(inputView.counterText)))

\* C13: the counter shows maxLength - length(text) and maxLength; its colour is red
\* iff remaining < 0, amber iff 0 <= remaining <= 100, and neutral otherwise.
C13_CounterAndColour ==
    LET remaining == maxLength - Len(text)
    IN  /\ ShownRemaining = remaining
        /\ ShownMax = maxLength
        /\ inputView.colour \in {"text-red-500", "text-amber-500", "text-gray-400"}
        /\ inputView.colour = "text-red-500" <=> remaining < 0
        /\ inputView.colour = "text-amber-500" <=> (0 <= remaining /\ remaining <= 100)
        /\ inputView.colour = "text-gray-400" <=> remaining > 100

\* exactly 100 characters remain: the upper end of the amber band
C13_Witness ==
    /\ text # <<>>
    /\ maxLength - Len(text) = 100
    /\ inputView.colour = "text-amber-500"

HasPageNumber(c) == c.page_number # Undefined
\* a heading that is the empty string counts as no heading
HasSectionHeading(c) == c.section_heading \notin {Undefined, Some("")}

\* C14: for every citation a 'Page N' label is shown iff the citation has a
\* page_number, and the expanded citation shows 'Section: H' iff it has a
\* section_heading; a citation lacking the field renders nothing in its place.
C14_PageAndSectionLabels ==
    \A i \in DOMAIN citations :
        LET c == citations[i]
            item == citationView[i]
        IN  /\ IF HasPageNumber(c)
               THEN item.page = Some([label |-> "Page ", n |-> c.page_number[1]])
               ELSE item.page = Undefined
            /\ expanded[i] =>
                  IF HasSectionHeading(c)
                  THEN item.content[1].section =
                          Some([label |-> "Section: ", heading |-> c.section_heading[1]])
                  ELSE item.content[1].section = Undefined

\* C15: every citation starts collapsed, and after any clicks its snippet is shown
\* iff the number of clicks on it is odd.
C15_ExpandedIffOddClicks ==
    \A i \in DOMAIN citations :
        /\ citationView[i].content # Undefined <=> clicks[i] % 2 = 1
        /\ citationView[i].content # Undefined =>
              citationView[i].content[1].snippet = Snippet(citations[i])

\* one citation clicked twice and collapsed again, another clicked once and open
C15_Witness ==
    \E i, j \in DOMAIN citations :
        /\ clicks[i] = 2 /\ citationView[i].content = Undefined
        /\ clicks[j] = 1 /\ citationView[j].content # Undefined

\* C16: CitationList renders every citation it is given, in the given order, and
\* the citation at position i displays index badge i.
C16_AllCitationsInOrder ==
    /\ Len(citationView) = Len(citations)
    /\ \A i \in DOMAIN citations :
          /\ citationView[i].index = i
          /\ citationView[i].title = SourceTitle(citations[i])
          /\ citationView[i].content # Undefined =>
                citationView[i].content[1].snippet = Snippet(citations[i])

\* two different citations, the second expanded and with badge 2
C16_Witness ==
    /\ Len(citations) = 2
    /\ citations[1].chunk_id # citations[2].chunk_id
    /\ citationView[2].index = 2
    /\ citationView[2].content # Undefined

\* C17: the citation toggle is shown iff the message is not from USER and has at
\* least one citation, and its count is the number of citations; the citation list
\* is hidden initially and every click on the toggle flips its visibility.
C17_CitationToggle ==
    /\ rendered.list = Undefined
    /\ [](rendered.toggle # Undefined <=>
              (message.sender # "USER" /\ Len(message.citations) >= 1))
    /\ [](rendered.toggle # Undefined =>
              /\ rendered.toggle[1].count = Len(message.citations)
              /\ rendered.list = Undefined => rendered.toggle[1].verb = "Show")
    /\ [](rendered.list # Undefined => rendered.toggle # Undefined)
    /\ [][ /\ rendered.toggle # Undefined
           /\ (rendered'.list = Undefined) <=> (rendered.list # Undefined) ]_vars

\* the toggle of an assistant message with two citations was clicked: the list shows
C17_Witness ==
    /\ message.sender = "ASSISTANT"
    /\ Len(message.citations) = 2
    /\ showCitations
    /\ rendered.list = Some(RenderCitationList(message.citations))
    /\ rendered.toggle = Some([verb |-> "Hide", count |-> 2, plural |-> TRUE])

\* C18: when a send of useChat fails, sendMessage rethrows the error, no assistant
\* message is added to the messages shown, exactly the optimistic message of the
\* failed send is removed, and the fetched messages and the other optimistic
\* messages stay as they were.
C18_FailedSendRemovesOnlyItsOptimistic ==
    [][ \A r \in sends :
          ( /\ r.via = "hook"
            /\ sends' = sends \ {r}
            /\ srvMessages' = srvMessages )
          => /\ r.sub \in thrown'
             /\ optimisticMessages' =
                   SelectSeq(optimisticMessages,
                             LAMBDA m : m.id # [kind |-> "temp", sub |-> r.sub])
             /\ Len(optimisticMessages') = Len(optimisticMessages) - 1
             /\ messagesData' = messagesData
             /\ \A i \in DOMAIN Displayed' :
                   Displayed'[i].sender = "ASSISTANT" =>
                       \E j \in DOMAIN Displayed : Displayed[j] = Displayed'[i] ]_vars

\* a send failed on a thread whose earlier messages are shown: it was rethrown and
\* its optimistic message is gone
C18_Witness ==
    /\ thrown # {}
    /\ sends = {}
    /\ optimisticMessages = <<>>
    /\ \E i \in DOMAIN Displayed : Displayed[i].sender = "ASSISTANT"
    /\ \A i \in DOMAIN Displayed : Displayed[i].id.sub \notin thrown

\* C19: after the active thread was deleted, the selection is undefined and stays
\* so until the user selects or creates a thread; the deletion of a thread that is
\* not the active one leaves the selection unchanged.
C19_DeletedActiveThreadStaysCleared ==
    [][ /\ lastSelection'.by = "delete" => activeThreadId' = None
        /\ \A d \in deletes :
              ( /\ deletes' = deletes \ {d}
                /\ d.thread # d.activeAtCall
                /\ d.thread # activeThreadId )
              => activeThreadId' = activeThreadId ]_vars

\* C20: after handleSelectThread(id) or handleNewChat, once every route change has
\* completed and no handler is still at work, activeThreadId is the threadId of the
\* URL and is the thread selected or created.
C20_SelectionInSyncWithUrl ==
    ( /\ lastSelection.by \in {"select", "new"}
      /\ navs = <<>> )
    => /\ activeThreadId = lastSelection.id
       /\ currentThreadId = lastSelection.id

\* with two threads, one was selected and its route change has completed
C20_Witness ==
    /\ lastSelection.by = "select"
    /\ navs = <<>>
    /\ srvThreads = ThreadIds
    /\ activeThreadId = lastSelection.id
    /\ currentThreadId = lastSelection.id

====
